---- MODULE Spec2Model ----
(***************************************************************************)
(* pandaproxy::kafka_client_cache (src/v/pandaproxy/kafka_client_cache.cc) *)
(*                                                                         *)
(* An LRU cache of kafka clients keyed by user name.  fetch_or_insert is   *)
(* synchronous; clean_stale_clients and stop are coroutines that suspend   *)
(* at every awaited client stop, where other operations interleave.        *)
(***************************************************************************)
EXTENDS Integers, Sequences, FiniteSets, TLC

\* ------------------------------------------------------------------ bounds
MaxClients == 3        \* clients make_client may construct in one run
MaxSize == 2           \* largest configured max_size (0..MaxSize)
MaxKeepAlive == 1      \* largest configured keep_alive (1..MaxKeepAlive), ticks
MaxSweeps == 2         \* clean_stale_clients invocations alive at once
TimerPeriod == 2       \* period the timer's owner arms it with, in ticks

\* -------------------------------------------------------- program constants
Window == 1            \* "now() + 1s": one tick is one second

\* the clock origin is shifted once now reaches MaxTime
MaxTime == MaxKeepAlive

Users == {"A", "B"}
Secrets == {"p1", "p2"}
NoPass == ""           \* scram_password of a client built without http_basic
AuthnMethods == {"none", "http_basic"}

Sweeps == 1..MaxSweeps
Stopper == 0           \* the coroutine of stop()
Procs == Sweeps \cup {Stopper}
Scenario == <<"A", "B", "C", "B", "D">>
ScenarioUsers == {Scenario[i] : i \in 1..Len(Scenario)}
Off == 0 - 1

VARIABLES
    cache,          \* _cache: list view, front first, of timestamped_user
    evicted_items,  \* _evicted_items
    cache_max_size, \* _cache_max_size
    keep_alive,     \* _keep_alive
    timer,          \* _clean_and_evict_timer: [armed, timeout]
    now,            \* lowres_clock::now()
    clients,        \* every client constructed: [scram_password, stops]
    procs,          \* coroutine frames: [pc, remove]; Head(remove) is awaited
    ret,            \* last fetch_or_insert call: its [key, pass] and the client returned
    touched,        \* history: Index keys, most recently touched first
    scen,           \* history: progress through Scenario, Off once left
    stop_failed     \* history: the client whose stop failed last, 0 for none

vars == <<cache, evicted_items, cache_max_size, keep_alive, timer, now,
          clients, procs, ret, touched, scen, stop_failed>>

\* ----------------------------------------------------------------- helpers
Keys(list) == {list[i].key : i \in 1..Len(list)}
KeySeq(list) == [i \in 1..Len(list) |-> list[i].key]
Handles(list) == {list[i].client : i \in 1..Len(list)}
Without(seq, k) == SelectSeq(seq, LAMBDA x : x # k)
Max(a, b) == IF a >= b THEN a ELSE b
Min(a, b) == IF a <= b THEN a ELSE b

size == Len(cache)
max_size == cache_max_size

find_none(k) == 0

\* inner_hash.find(k): position in the list view, 0 for end()
find(k) == IF k \in Keys(cache)
           THEN CHOOSE i \in 1..Len(cache) : cache[i].key = k
           ELSE 0

\* timestamped_user(k, client): last_used is the construction time
timestamped_user(k, client) == [key |-> k, client |-> client, last_used |-> now]

\* std::move(item) into _evicted_items or a remove list: last_used is never
\* read again, so the moved entry keeps its key and client only
moved(item) == [key |-> item.key, client |-> item.client]

\* make_client: the credentials are set only under http_basic
make_client(pass, authn_method) ==
    [scram_password |-> IF authn_method = "http_basic" THEN pass ELSE NoPass,
     stops |-> 0]

at_capacity_strict == size > cache_max_size

evict_always == size >= 0

\* _cache.size() >= _cache_max_size
at_capacity == size >= cache_max_size

victim_front(list) == 1

\* inner_list.back(): the entry a full cache evicts
victim(list) == Len(list)

rearm_if_later(t) ==
    LET window == now + Window
    IN IF t.armed /\ t.timeout > window
       THEN [armed |-> TRUE, timeout |-> window]
       ELSE t

rearm_always(t) == [armed |-> TRUE, timeout |-> now + Window]

\* the timer decision after an eviction
rearm_after_evict(t) ==
    LET window == now + Window
    IN IF ~t.armed \/ (t.armed /\ t.timeout > window)
       THEN [armed |-> TRUE, timeout |-> window]
       ELSE t

touch_only(list, i) == [list EXCEPT ![i].last_used = now]

relocate_only(list, i) ==
    <<list[i]>> \o SubSeq(list, 1, i - 1) \o SubSeq(list, i + 1, Len(list))

\* modify last_used, then relocate to the front
relocate_front(list, i) ==
    <<[list[i] EXCEPT !.last_used = now]>>
        \o SubSeq(list, 1, i - 1) \o SubSeq(list, i + 1, Len(list))

hit_front(i) == cache[1].client

\* client = it_hash->client
hit_client(i) == cache[i].client

hit_password_kept(old, pass) == old

\* the password a hit leaves on the client
hit_password(old, pass) == IF old # pass THEN pass ELSE old

ScenStep(k) == IF scen # Off /\ scen < Len(Scenario) /\ Scenario[scen + 1] = k
               THEN scen + 1 ELSE Off

\* ----------------------------------------------------------- fetch_or_insert
fetch_or_insert(name, pass, authn_method) ==
    LET it_hash == find(name) IN
    /\ IF it_hash = 0
       THEN LET evict == at_capacity /\ cache # <<>>
                v == victim(cache)
                list1 == IF evict
                         THEN SubSeq(cache, 1, v - 1) \o SubSeq(cache, v + 1, Len(cache))
                         ELSE cache
                client == Len(clients) + 1
            IN /\ evicted_items' = IF evict THEN Append(evicted_items, moved(cache[v]))
                                   ELSE evicted_items
               /\ timer' = IF evict THEN rearm_after_evict(timer) ELSE timer
               /\ clients' = Append(clients, make_client(pass, authn_method))
               /\ cache' = <<timestamped_user(name, client)>> \o list1
               /\ ret' = [key |-> name, pass |-> pass, client |-> client]
               /\ touched' = <<name>> \o
                     (IF evict THEN Without(touched, cache[v].key) ELSE touched)
       ELSE /\ LET client == hit_client(it_hash)
               IN /\ clients' = [clients EXCEPT ![client].scram_password =
                                    hit_password(@, pass)]
                  /\ ret' = [key |-> name, pass |-> pass, client |-> client]
            /\ cache' = relocate_front(cache, it_hash)
            /\ touched' = <<name>> \o Without(touched, name)
            /\ UNCHANGED <<evicted_items, timer>>
    /\ scen' = ScenStep(name)
    /\ UNCHANGED <<cache_max_size, keep_alive, now, procs, stop_failed>>

\* ---------------------------------------------------------- remove_client_if
is_expired_strict(item) == now > item.last_used + keep_alive

\* now >= (item.last_used + keep_alive)
is_expired(item) == now >= item.last_used + keep_alive
never(item) == FALSE

\* [](auto&&) { return true; }
always(item) == TRUE
Holds(pred, item) == IF pred = "is_expired" THEN is_expired(item) ELSE always(item)

not_erased(item, rest) == <<item>> \o rest

\* list.erase(first++): what is left of the list from the erased item on
erased(item, rest) == rest

\* the scan: [list |-> what stays, remove |-> what was moved out]
RECURSIVE scan(_, _, _)
scan(list, pred, i) ==
    IF i > Len(list) THEN [list |-> <<>>, remove |-> <<>>]
    ELSE LET rest == scan(list, pred, i + 1)
         IN IF Holds(pred, list[i])
            THEN [list |-> erased(list[i], rest.list),
                  remove |-> <<moved(list[i])>> \o rest.remove]
            ELSE [list |-> <<list[i]>> \o rest.list, remove |-> rest.remove]

\* item.client->stop() is called
issue_stop(cl, h) == [cl EXCEPT ![h].stops = @ + 1]

\* A coroutine runs from one suspension to the next in one step.  From the
\* entry of the remove_client_if over the evicted items:
enter_evicted(c, ev, cl, donePc) ==
    LET r == scan(ev, "always", 1)
    IN IF r.remove # <<>>
       THEN [pc |-> "evicted", remove |-> r.remove, cache |-> c,
             evicted |-> r.list, clients |-> issue_stop(cl, r.remove[1].client)]
       ELSE [pc |-> donePc, remove |-> <<>>, cache |-> c,
             evicted |-> r.list, clients |-> cl]

enter_staged(pred, donePc) ==
    LET r == scan(cache, pred, 1)
    IN [enter_evicted(r.list, evicted_items, clients, donePc)
           EXCEPT !.evicted = r.remove]

enter_together(pred, donePc) ==
    LET r == scan(cache, pred, 1)
        all == r.remove \o scan(evicted_items, "always", 1).remove
    IN IF all # <<>>
       THEN [pc |-> "index", remove |-> all, cache |-> r.list,
             evicted |-> <<>>, clients |-> issue_stop(clients, all[1].client)]
       ELSE [pc |-> donePc, remove |-> <<>>, cache |-> r.list,
             evicted |-> <<>>, clients |-> clients]

\* from the entry of the remove_client_if over the Index
enter_index(pred, donePc) ==
    LET r == scan(cache, pred, 1)
    IN IF r.remove # <<>>
       THEN [pc |-> "index", remove |-> r.remove, cache |-> r.list,
             evicted |-> evicted_items,
             clients |-> issue_stop(clients, r.remove[1].client)]
       ELSE enter_evicted(r.list, evicted_items, clients, donePc)

resume_rescan(p, donePc) ==
    LET r == scan(cache, "is_expired", 1)
        rest == Tail(procs[p].remove) \o r.remove
    IN IF rest # <<>>
       THEN [pc |-> procs[p].pc, remove |-> rest, cache |-> r.list,
             evicted |-> evicted_items,
             clients |-> issue_stop(clients, rest[1].client)]
       ELSE [pc |-> donePc, remove |-> <<>>, cache |-> r.list,
             evicted |-> evicted_items, clients |-> clients]

\* from the completion of the awaited stop (an exception is logged and dropped)
resume(p, donePc) ==
    LET rest == Tail(procs[p].remove)
    IN IF rest # <<>>
       THEN [pc |-> procs[p].pc, remove |-> rest, cache |-> cache,
             evicted |-> evicted_items,
             clients |-> issue_stop(clients, rest[1].client)]
       ELSE IF procs[p].pc = "index"
            THEN enter_evicted(cache, evicted_items, clients, donePc)
            ELSE [pc |-> donePc, remove |-> <<>>, cache |-> cache,
                  evicted |-> evicted_items, clients |-> clients]

Apply(p, f) ==
    /\ procs' = [procs EXCEPT ![p] = [pc |-> f.pc, remove |-> f.remove]]
    /\ cache' = f.cache
    /\ evicted_items' = f.evicted
    /\ clients' = f.clients
    /\ touched' = SelectSeq(touched, LAMBDA k : k \in Keys(f.cache))

\* ------------------------------------------------------ clean_stale_clients
FreeSweep == CHOOSE p \in Sweeps :
                /\ procs[p].pc = "idle"
                /\ \A q \in Sweeps : procs[q].pc = "idle" => p <= q

\* the timer fires and its callback calls clean_stale_clients()
clean_stale_clients ==
    /\ timer.armed /\ now >= timer.timeout
    /\ \E p \in Sweeps : procs[p].pc = "idle"
    /\ timer' = [armed |-> FALSE, timeout |-> 0]
    /\ Apply(FreeSweep, enter_index("is_expired", "idle"))
    /\ scen' = Off
    /\ UNCHANGED <<cache_max_size, keep_alive, now, ret, stop_failed>>

\* ---------------------------------------------------------------------- stop
stop ==
    /\ procs[Stopper].pc = "idle"
    /\ Apply(Stopper, enter_index("always", "done"))
    /\ scen' = Off
    /\ UNCHANGED <<cache_max_size, keep_alive, timer, now, ret, stop_failed>>

propagated(outcome) == outcome

\* handle_exception: the handler logs the exception and returns, so the future
\* the coroutine awaits is ready with a value whatever the outcome of the stop
handle_exception(outcome) == "ok"

\* an exception that leaves the coroutine destroys its frame
unwind(p, donePc) ==
    [pc |-> donePc, remove |-> <<>>, cache |-> cache,
     evicted |-> evicted_items, clients |-> clients]

\* a client's stop() future resolves, with a value or with an exception
stop_resolves(p, outcome) ==
    /\ procs[p].pc \in {"index", "evicted"}
    /\ LET donePc == IF p = Stopper THEN "done" ELSE "idle"
       IN IF handle_exception(outcome) = "ok"
          THEN Apply(p, resume(p, donePc))
          ELSE Apply(p, unwind(p, donePc))
    /\ stop_failed' = IF outcome = "exception"
                      THEN Head(procs[p].remove).client
                      ELSE stop_failed
    /\ UNCHANGED <<cache_max_size, keep_alive, timer, now, ret, scen>>

\* ----------------------------------------------------------- the environment
\* the timer's owner arms it
arm_timer ==
    /\ ~timer.armed
    /\ timer' = [armed |-> TRUE, timeout |-> now + TimerPeriod]
    /\ UNCHANGED <<cache, evicted_items, cache_max_size, keep_alive, now,
                   clients, procs, ret, touched, scen, stop_failed>>

Shift(list) == [i \in 1..Len(list) |->
                   [list[i] EXCEPT !.last_used = Max(@ - 1, 0)]]

\* the clock advances; time points are relative, so at MaxTime the origin moves
Tick ==
    /\ IF now < MaxTime
       THEN /\ now' = now + 1
            /\ UNCHANGED <<cache, timer>>
       ELSE /\ now' = now
            /\ cache' = Shift(cache)
            /\ timer' = [timer EXCEPT !.timeout = Max(@ - 1, 0)]
    /\ UNCHANGED <<evicted_items, procs, cache_max_size, keep_alive, clients,
                   ret, touched, scen, stop_failed>>

\* ------------------------------------------------------------ specification
Init ==
    /\ cache = <<>>
    /\ evicted_items = <<>>
    /\ cache_max_size \in 0..MaxSize
    /\ keep_alive \in 1..MaxKeepAlive
    /\ timer = [armed |-> FALSE, timeout |-> 0]
    /\ now = 0
    /\ clients = <<>>
    /\ procs = [p \in Procs |-> [pc |-> "idle", remove |-> <<>>]]
    /\ ret = [key |-> "", pass |-> NoPass, client |-> 0]
    /\ touched = <<>>
    /\ scen = 0
    /\ stop_failed = 0

\* the calls explored: a miss constructs a client, of which a run has at most n
Calls(users, secrets, methods, n) ==
    \E name \in users, pass \in secrets, m \in methods :
        /\ find(name) # 0 \/ Len(clients) < n
        /\ fetch_or_insert(name, pass, m)

Next ==
    \/ Calls(Users, Secrets, AuthnMethods, MaxClients)
    \/ clean_stale_clients
    \/ stop
    \/ \E p \in Procs, outcome \in {"ok", "exception"} : stop_resolves(p, outcome)
    \/ arm_timer
    \/ Tick

Spec == Init /\ [][Next]_vars

\* The fetch_or_insert calls alone, before the timer fires: the runs the LRU
\* scenarios are about.
InitLRU == Init /\ cache_max_size >= 1

NextLRU ==
    \/ Calls(ScenarioUsers, Secrets, AuthnMethods, MaxClients + 1)
    \/ Tick

SpecLRU == InitLRU /\ [][NextLRU]_vars

\* The scheduling the reactor gives: time passes, a timer that is due fires,
\* and every awaited client stop resolves.  Nothing obliges a caller to call
\* fetch_or_insert or stop, or the timer's owner to arm the timer.
NextLive ==
    \/ Calls(Users, {"p1"}, {"http_basic"}, MaxClients)
    \/ clean_stale_clients
    \/ stop
    \/ \E p \in Procs, outcome \in {"ok", "exception"} : stop_resolves(p, outcome)
    \/ arm_timer
    \/ Tick

Fairness ==
    /\ WF_vars(Tick)
    /\ WF_vars(clean_stale_clients)
    /\ \A p \in Procs :
          WF_vars(\E outcome \in {"ok", "exception"} : stop_resolves(p, outcome))

SpecLive == Init /\ [][NextLive]_vars /\ Fairness

\* ==================================================================== claims
\* where the cache holds client h: the Index, the buffer, the remove lists
Frames == UNION {{p} \X (1..Len(procs[p].remove)) : p \in Procs}
Places(h) ==
    Cardinality({i \in 1..Len(cache) : cache[i].client = h})
    + Cardinality({i \in 1..Len(evicted_items) : evicted_items[i].client = h})
    + Cardinality({x \in Frames : procs[x[1]].remove[x[2]].client = h})
Suspended(p) == procs[p].pc \in {"index", "evicted"}
Awaited(h) == \E p \in Procs : Suspended(p) /\ Head(procs[p].remove).client = h
StopReturns == procs[Stopper].pc # "done" /\ procs'[Stopper].pc = "done"

\* C1, as stated: in every reachable state, for every configured max_size,
\* size() <= max_size().
C1_SizeWithinMax == size <= max_size

\* C1, amended: for every max_size >= 1, size() <= max_size(); a cache
\* configured with max_size = 0 holds one entry, the one inserted last.
C1_SizeWithinMaxOrOne == size <= Max(max_size, 1)

C1_AtCapacityAfterEviction ==
    max_size >= 1 /\ size = max_size /\ evicted_items # <<>>

\* C2: when stop() returns, size() is 0 and the Pending-Teardown Buffer is
\* empty, also when fetch_or_insert calls ran at stop()'s suspension points.
C2_StopLeavesNothing ==
    [][StopReturns => (Len(cache') = 0 /\ evicted_items' = <<>>)]_vars

\* C3: the cache holds every client in one place at most, and has called
\* stop on it exactly once if it is the awaited one or has been discarded,
\* and never otherwise: no client is stopped twice, and none that left the
\* cache was left unstopped.
C3_StoppedExactlyOnce ==
    \A h \in 1..Len(clients) :
        /\ Places(h) <= 1
        /\ clients[h].stops = IF Awaited(h) \/ Places(h) = 0 THEN 1 ELSE 0

C3_SweepAndStopInterleaved ==
    /\ Suspended(Stopper)
    /\ \E p \in Sweeps : Suspended(p)
    /\ \E h \in 1..Len(clients) : Places(h) = 0 /\ clients[h].stops = 1

\* this step is the call fetch_or_insert(name, pass, m) for some pass
Called(name, m) ==
    /\ procs' = procs /\ now' = now
    /\ ret'.key = name
    /\ fetch_or_insert(name, ret'.pass, m)
Ways == Users \X AuthnMethods
LRUWays == ScenarioUsers \X AuthnMethods
ClientOf(list, k) == list[CHOOSE i \in 1..Len(list) : list[i].key = k].client
Last(seq) == seq[Len(seq)]

\* C4: a miss with max_size = N >= 1 entries in the Index moves exactly one
\* entry to the Pending-Teardown Buffer, the least recently touched one; the
\* other N-1 entries and the new one are the Index.
C4_EvictsLeastRecentlyTouched ==
    [][\A in \in LRUWays :
          (/\ in[1] \notin Keys(cache) /\ size = max_size /\ size >= 1
           /\ Called(in[1], in[2]))
          => /\ touched # <<>>
             /\ Last(touched) \in Keys(cache)
             /\ evicted_items' = Append(evicted_items,
                    [key |-> Last(touched),
                     client |-> ClientOf(cache, Last(touched))])
             /\ Keys(cache') = (Keys(cache) \ {Last(touched)}) \cup {in[1]}
             /\ Len(cache') = max_size
             /\ \A k \in Keys(cache) \ {Last(touched)} :
                    ClientOf(cache', k) = ClientOf(cache, k)]_vars

C4_OneMoreThanMaxSize ==
    /\ max_size = MaxSize /\ size = max_size
    /\ Len(clients) = max_size + 1 /\ Len(evicted_items) = 1
    /\ \A h \in 1..Len(clients) : clients[h].stops = 0

\* C5: a hit moves the entry to the front of the recency order and keeps the
\* order of the others, so with max_size = 2 the calls A, B, C, B, D evict A
\* and then C and end with the Index {B, D}.
C5_HitPromotes ==
    /\ [][\A in \in LRUWays :
            (in[1] \in Keys(cache) /\ Called(in[1], in[2]))
            => KeySeq(cache') = <<in[1]>> \o Without(KeySeq(cache), in[1])]_vars
    /\ [](cache_max_size = 2 =>
            /\ scen = 3 => /\ KeySeq(cache) = <<"C", "B">>
                           /\ KeySeq(evicted_items) = <<"A">>
            /\ scen = 4 => /\ KeySeq(cache) = <<"B", "C">>
                           /\ KeySeq(evicted_items) = <<"A">>
            /\ scen = 5 => /\ Keys(cache) = {"B", "D"}
                           /\ KeySeq(evicted_items) = <<"A", "C">>)

C5_ScenarioDone == cache_max_size = 2 /\ scen = Len(Scenario)

\* every call returns the client the Index holds for the identity afterwards,
\* and the Index never changes the client of an identity it keeps
HandleKept ==
    /\ \A k \in Keys(cache) \cap Keys(cache') :
           ClientOf(cache', k) = ClientOf(cache, k)
    /\ \A in \in Ways :
           Called(in[1], in[2]) => /\ in[1] \in Keys(cache')
                                   /\ ret'.client = ClientOf(cache', in[1])

\* C6, as stated: a call with the identity and the secret of the call before
\* it returns the client that call returned (stop() not yet called).
C6_SameSecretSameHandle ==
    [][\A in \in Ways :
          (/\ ret.key = in[1] /\ ret'.pass = ret.pass
           /\ procs[Stopper].pc = "idle" /\ Called(in[1], in[2]))
          => ret'.client = ret.client]_vars

\* C6, amended: a call for an identity that is still in the Index returns the
\* client the Index has kept for it since the earlier call and constructs
\* none, and a client that already has the secret is left as it is.
C6_HitReturnsSameHandle ==
    [][/\ HandleKept
       /\ \A in \in Ways :
             (in[1] \in Keys(cache) /\ Called(in[1], in[2]))
             => /\ ret'.client = ClientOf(cache, in[1])
                /\ Len(clients') = Len(clients)
                /\ ret.key = in[1] => ret'.client = ret.client
                /\ clients[ClientOf(cache, in[1])].scram_password = ret'.pass
                      => clients' = clients]_vars

C6_SameSecretHit ==
    /\ ret.client # 0 /\ ret.client < Len(clients)
    /\ cache # <<>> /\ cache[1].client = ret.client
    /\ \A h \in 1..Len(clients) : clients[h].scram_password = ret.pass

\* C7, as stated: a call with the identity of the call before it and another
\* secret returns the client that call returned, which then has the new secret
\* (stop() not yet called).
C7_ChangedSecretSameHandle ==
    [][\A in \in Ways :
          (/\ ret.key = in[1] /\ ret'.pass # ret.pass
           /\ procs[Stopper].pc = "idle" /\ Called(in[1], in[2]))
          => /\ ret'.client = ret.client
             /\ clients'[ret.client].scram_password = ret'.pass]_vars

\* C7, amended: a call for an identity that is still in the Index returns the
\* client the Index has kept for it since the earlier call, whose password is
\* the secret of this call afterwards; no client is constructed or otherwise
\* changed.
C7_HitUpdatesPassword ==
    [][/\ HandleKept
       /\ \A in \in Ways :
             (in[1] \in Keys(cache) /\ Called(in[1], in[2]))
             => LET c == ClientOf(cache, in[1])
                IN /\ ret'.client = c
                   /\ clients' = [clients EXCEPT ![c].scram_password = ret'.pass]]_vars

C7_PasswordChangedInPlace ==
    /\ ret.client # 0 /\ ret.client < Len(clients)
    /\ cache # <<>> /\ cache[1].client = ret.client
    /\ clients[ret.client].scram_password = ret.pass
    /\ \A h \in 1..Len(clients) :
          h # ret.client => clients[h].scram_password \notin {ret.pass, NoPass}

SweepStarts == timer.armed /\ ~timer'.armed
Expired(item) == item.last_used + keep_alive <= now
Fresh(item) == ~Expired(item)

\* C8: a run of clean_stale_clients takes out of the Index exactly the
\* entries with last_used + keep_alive <= now, wherever they are, keeps the
\* others as they were, and has called stop on every entry it took before it
\* lets go of it; none of them returns to the Index.
C8_SweepRemovesExpired ==
    [][/\ SweepStarts =>
            LET p == FreeSweep
                gone == SelectSeq(cache, Expired)
            IN /\ cache' = SelectSeq(cache, Fresh)
               /\ gone # <<>> =>
                     /\ procs'[p].pc = "index"
                     /\ procs'[p].remove = [i \in 1..Len(gone) |->
                           [key |-> gone[i].key, client |-> gone[i].client]]
                     /\ clients'[gone[1].client].stops = 1
       /\ \A p \in Sweeps :
            procs[p].pc = "index" =>
               /\ Handles(procs[p].remove) \cap Handles(cache') = {}
               /\ \A h \in Handles(procs[p].remove) :
                     \/ procs'[p].pc = "index" /\ h \in Handles(procs'[p].remove)
                     \/ clients'[h].stops = 1]_vars

C8_ExpiredTakenFreshKept ==
    \E p \in Sweeps :
        /\ procs[p].pc = "index" /\ Len(cache) = 1
        /\ cache[1].client < Head(procs[p].remove).client

\* C9: fetch_or_insert can run in every reachable state for every identity,
\* and when it has run the identity is the front entry of the Index, once,
\* with the returned client and last_used = now.
C9_AlwaysReturnsFrontEntry ==
    /\ [](\A name \in Users, pass \in Secrets, m \in AuthnMethods :
             ENABLED fetch_or_insert(name, pass, m))
    /\ [][\A in \in Ways :
            Called(in[1], in[2])
            => /\ ret'.client \in 1..Len(clients')
               /\ cache' # <<>>
               /\ cache'[1] = [key |-> in[1], client |-> ret'.client,
                               last_used |-> now]
               /\ Cardinality({i \in 1..Len(cache') : cache'[i].key = in[1]}) = 1
               /\ procs' = procs]_vars

C9_FetchedAtCapacityDuringStop ==
    /\ procs[Stopper].pc = "index" /\ Len(clients) = 3
    /\ cache # <<>> /\ size >= max_size /\ evicted_items # <<>>
    /\ cache[1].client = ret.client /\ cache[1].last_used = now

\* C10: every client a capacity eviction moved to the Pending-Teardown
\* Buffer is eventually stopped, given that a due timer fires and that every
\* awaited stop resolves.
C10_EvictedEventuallyStopped ==
    \A h \in 1..MaxClients :
        (h \in Handles(evicted_items))
            ~> (h <= Len(clients) /\ clients[h].stops >= 1)

C10_EvictedWhileSweepSuspended ==
    \E p \in Sweeps :
        /\ procs[p].pc = "evicted" /\ evicted_items # <<>>
        /\ timer.armed

\* this step is a miss of fetch_or_insert(name, pass, m) that evicts
Evicting(name, m) ==
    /\ name \notin Keys(cache) /\ size >= max_size /\ cache # <<>>
    /\ Called(name, m)

\* C11: after every capacity eviction the timer is armed, for
\* min(previous deadline, now + short delay) when it was armed before and for
\* now + short delay when it was not; a timer due within the short delay
\* keeps its deadline.
C11_TimerDebounce ==
    [][\A in \in Ways :
          Evicting(in[1], in[2])
          => /\ timer'.armed
             /\ timer'.timeout = IF timer.armed
                                 THEN Min(timer.timeout, now + Window)
                                 ELSE now + Window
             /\ (timer.armed /\ timer.timeout <= now + Window)
                   => timer' = timer]_vars

\* the newest client was inserted now and evicted the one before it, and the
\* timer, already due within the short delay, has kept its deadline
C11_DueTimerLeftUntouched ==
    /\ max_size = 1 /\ size = 1 /\ Len(clients) >= 2
    /\ cache[1].client = Len(clients) /\ cache[1].last_used = now
    /\ Len(clients) - 1 \in Handles(evicted_items)
    /\ timer.armed /\ timer.timeout < now + Window

\* the clients the cache has removed from the Index for teardown
Removed == Handles(evicted_items)
               \cup UNION {Handles(procs[p].remove) : p \in Procs}

\* C12: no entry on which stop was issued or that waits for teardown is in the
\* Index, so a fetch_or_insert that runs while a sweep or stop() is suspended
\* never returns such a client; when the identity has no Index entry, its
\* removed entry notwithstanding, the call is a miss and returns a client
\* constructed by this call.
C12_NeverReturnsRemoved ==
    /\ [](/\ Removed \cap Handles(cache) = {}
          /\ \A h \in Handles(cache) : clients[h].stops = 0)
    /\ [][\A in \in Ways :
            Called(in[1], in[2])
            => /\ ret'.client \notin Handles(evicted_items')
               /\ \A p \in Procs : ret'.client \notin Handles(procs'[p].remove)
               /\ clients'[ret'.client].stops = 0
               /\ in[1] \notin Keys(cache)
                     => /\ Len(clients') = Len(clients) + 1
                        /\ ret'.client = Len(clients')]_vars

\* the identity whose removed client's stop is awaited was fetched meanwhile
\* and has a newer client in the Index
C12_FetchedWhileItsStopAwaited ==
    \E p \in Procs :
        /\ Suspended(p)
        /\ Head(procs[p].remove).key = ret.key
        /\ cache # <<>> /\ cache[1].key = ret.key /\ cache[1].client = ret.client
        /\ ret.client > Head(procs[p].remove).client
        /\ clients[ret.client].stops = 0

\* this step takes sweep p to its scan of the Pending-Teardown Buffer
DrainScan(p) ==
    \/ procs[p].pc = "index" /\ procs'[p].pc # "index"
    \/ SweepStarts /\ p = FreeSweep /\ procs'[p].pc # "index"
SweepFinishes == \E p \in Sweeps : Suspended(p) /\ procs'[p].pc = "idle"

Failed(p) ==
    /\ Suspended(p) /\ procs'[p] # procs[p]
    /\ stop_failed' = Head(procs[p].remove).client
    /\ stop_resolves(p, "exception")

\* C14: when the stop a sweep or stop() awaits fails, the operation goes on as
\* after a success: the failed client is dropped and not stopped again, stop is
\* issued on the next entry of the removal set, or on the first entry of the
\* buffer after the last entry of the Index group, and after the last entry
\* of all the operation returns normally.
C14_FailureAbsorbed ==
    [][\A p \in Procs :
          Failed(p) =>
             LET h == Head(procs[p].remove).client
                 rest == Tail(procs[p].remove)
                 toBuffer == procs[p].pc = "index" /\ evicted_items # <<>>
             IN /\ clients'[h].stops = 1
                /\ h \notin Handles(cache') \cup Handles(evicted_items')
                /\ \A q \in Procs : h \notin Handles(procs'[q].remove)
                /\ \A q \in Procs \ {p} : procs'[q] = procs[q]
                /\ rest # <<>> =>
                      /\ procs'[p] = [pc |-> procs[p].pc, remove |-> rest]
                      /\ clients'[rest[1].client].stops = 1
                /\ (rest = <<>> /\ toBuffer) =>
                      /\ procs'[p] = [pc |-> "evicted", remove |-> evicted_items]
                      /\ evicted_items' = <<>>
                      /\ clients'[evicted_items[1].client].stops = 1
                /\ (rest = <<>> /\ ~toBuffer) =>
                      procs'[p] = [pc |-> IF p = Stopper THEN "done" ELSE "idle",
                                   remove |-> <<>>]]_vars

\* stop() took clients 2 and 1 from the Index; the stop of 2 has failed and
\* the stop of 1 is awaited (no sweep can have run at time 0)
C14_NextStoppedAfterFailure ==
    /\ now = 0 /\ stop_failed = 2
    /\ procs[Stopper].pc = "index"
    /\ Head(procs[Stopper].remove).client = 1
    /\ clients[1].stops = 1 /\ clients[2].stops = 1

\* C15: a suspended sweep has issued stop on the entry it awaits and on no
\* later entry of its removal set; one step issues at most one stop; a sweep
\* leaves the buffer alone while it stops expired Index entries and turns to
\* the buffer, whose entries are then all unstopped, only when the stop of its
\* last expired entry has been observed.
C15_IndexThenBufferOneAtATime ==
    /\ [](\A p \in Sweeps :
            Suspended(p) =>
               /\ clients[Head(procs[p].remove).client].stops = 1
               /\ \A i \in 2..Len(procs[p].remove) :
                     clients[procs[p].remove[i].client].stops = 0)
    /\ [][/\ Cardinality({h \in 1..Len(clients) :
                             clients'[h].stops # clients[h].stops}) <= 1
          /\ \A p \in Sweeps :
                /\ (procs'[p].pc = "index" /\ procs'[p] # procs[p])
                      => evicted_items' = evicted_items
                /\ (procs[p].pc = "index" /\ procs'[p].pc # "index")
                      => Len(procs[p].remove) = 1
                /\ (procs[p].pc # "evicted" /\ procs'[p].pc = "evicted")
                      => \A h \in Handles(evicted_items) : clients[h].stops = 0
                /\ (Suspended(p) /\ procs'[p].pc = procs[p].pc
                       /\ procs'[p] # procs[p])
                      => procs'[p].remove = Tail(procs[p].remove)]_vars

\* a sweep awaits the stop of an expired entry while an entry evicted before
\* that one was built waits, unstopped, in the buffer
C15_BufferWaitsForIndexGroup ==
    \E p \in Sweeps :
        /\ procs[p].pc = "index" /\ evicted_items # <<>>
        /\ Head(procs[p].remove).client > evicted_items[1].client
        /\ clients[evicted_items[1].client].stops = 0

\* C16: every identity has at most one entry in the Index, and the lookup by
\* identity and the recency-ordered list are views of the same entries: the
\* lookup finds every entry of the list under its identity and finds nothing
\* for any other identity.
C16_OneEntryPerIdentity ==
    /\ Cardinality(Keys(cache)) = Len(cache)
    /\ \A i \in 1..Len(cache) : find(cache[i].key) = i
    /\ \A k \in Users : (find(k) # 0) <=> (k \in Keys(cache))

\* both identities are in the Index, the one fetched last by a hit
C16_TwoIdentitiesAfterHit ==
    /\ size = 2 /\ Len(clients) = 2
    /\ cache[1].key = ret.key /\ cache[1].client = 1 /\ cache[2].client = 2

\* the entries of a list without their last_used
Bare(list) == {[key |-> list[i].key, client |-> list[i].client] : i \in 1..Len(list)}

\* C17: a hit leaves the identities and clients of the Index, size(), the
\* Pending-Teardown Buffer and the timer as they were, changes no entry but
\* the hit one, which gets last_used = now and the front position, and no
\* client but the hit one, of which at most the password; a miss below
\* max_size adds one entry, changes no other, and leaves the buffer and the
\* timer as they were.
C17_HitAndFreeMissFrame ==
    [][\A in \in Ways :
          /\ (in[1] \in Keys(cache) /\ Called(in[1], in[2])) =>
                LET i == find(in[1])
                IN /\ Bare(cache') = Bare(cache)
                   /\ Len(cache') = Len(cache)
                   /\ cache' = <<[cache[i] EXCEPT !.last_used = now]>>
                                  \o SubSeq(cache, 1, i - 1)
                                  \o SubSeq(cache, i + 1, Len(cache))
                   /\ evicted_items' = evicted_items
                   /\ timer' = timer
                   /\ Len(clients') = Len(clients)
                   /\ \A h \in 1..Len(clients) :
                         /\ clients'[h].stops = clients[h].stops
                         /\ h # cache[i].client => clients'[h] = clients[h]
          /\ (in[1] \notin Keys(cache) /\ size < max_size /\ Called(in[1], in[2])) =>
                /\ Len(cache') = Len(cache) + 1
                /\ Tail(cache') = cache
                /\ evicted_items' = evicted_items
                /\ timer' = timer
                /\ clients' = Append(clients, Last(clients'))]_vars

\* the second identity was inserted below max_size, and then the first one,
\* the older entry, was hit with another secret while the timer was armed
C17_HitBehindFreeMiss ==
    /\ max_size = 2 /\ size = 2 /\ Len(clients) = 2 /\ evicted_items = <<>>
    /\ cache[1].client = 1 /\ cache[1].last_used = now
    /\ cache[2].last_used < now
    /\ clients[1].scram_password = "p2" /\ ret.pass = "p2"
    /\ timer.armed

\* an entry is in the buffer after this step that was not in it before
BufferGrows == \E i \in 1..Len(evicted_items') :
                  evicted_items'[i].client \notin Handles(evicted_items)

\* C18: the Pending-Teardown Buffer gets an entry only from a fetch_or_insert
\* miss at capacity, which appends the back entry of the Index; a step of a
\* sweep or of stop() adds nothing to the buffer, and what it takes out of the
\* Index goes to its own removal list, where its stop is issued.
C18_OnlyEvictionFillsBuffer ==
    [][/\ BufferGrows =>
             /\ procs' = procs
             /\ cache # <<>> /\ size >= max_size
             /\ ret'.key \notin Keys(cache)
             /\ Len(clients') = Len(clients) + 1
             /\ evicted_items' = Append(evicted_items,
                    [key |-> Last(cache).key, client |-> Last(cache).client])
       /\ \A p \in Procs :
             procs'[p] # procs[p] =>
                /\ ~BufferGrows
                /\ Handles(cache) \ Handles(cache') \subseteq Handles(procs'[p].remove)
                /\ Handles(cache) \cap Handles(evicted_items') = {}
                /\ Handles(cache) # Handles(cache')
                      => clients'[Head(procs'[p].remove).client].stops = 1]_vars

\* a sweep took an expired entry from the Index and awaits its stop; that
\* entry is in no buffer, which holds an entry evicted earlier
C18_ExpiredNotStaged ==
    \E p \in Sweeps :
        /\ procs[p].pc = "index" /\ Len(evicted_items) = 1
        /\ cache = <<>>
        /\ Head(procs[p].remove).client \notin Handles(evicted_items)

\* C19: last_used does not increase from the front of the Index to its back,
\* so the expired entries are the entries from some position on to the back.
C19_RecencyIsAgeOrder ==
    /\ \A i \in 1..Len(cache), j \in 1..Len(cache) :
          i < j => cache[i].last_used >= cache[j].last_used
    /\ \E n \in 0..Len(cache) :
          \A i \in 1..Len(cache) : Expired(cache[i]) <=> i > n

\* a fresh entry in front of an expired one
C19_FreshBeforeExpired ==
    /\ size = 2 /\ Fresh(cache[1]) /\ Expired(cache[2])
    /\ cache[1].last_used > cache[2].last_used

\* With max_size <= 1 the Index holds one entry at most, so a client built
\* after the one that sweep p took from the Index was inserted after p
\* started; in the buffer, it was evicted while p was stopping that entry.
EvictedDuring(p) ==
    {h \in Handles(evicted_items) : h > Head(procs[p].remove).client}

\* C20, as stated, for max_size <= 1 and before stop() is called: an entry
\* evicted into the buffer while sweep p is stopping its expired Index
\* entries leaves the buffer only into the removal list of p.
C20_EvictedDuringSweepDrainedByIt ==
    [][\A p \in Sweeps :
          (/\ max_size <= 1 /\ procs[p].pc = "index"
           /\ procs'[Stopper].pc = "idle")
          => \A h \in EvictedDuring(p) :
                \/ h \in Handles(evicted_items')
                \/ h \in Handles(procs'[p].remove)]_vars

\* C20, amended: a sweep takes from the Index the entries that are expired
\* when it starts and no entry afterwards: its later steps leave the Index as
\* it is, its removal list never grows while it stops them, and no client in
\* the Index is stopped by it.  When the stop of its last expired entry has
\* resolved it takes the buffer as it is then, with the entries evicted in the
\* meantime that no other sweep and no stop() has taken before.
C20_RemovalSetFixedAtStart ==
    [][\A p \in Sweeps :
          /\ (SweepStarts /\ p = FreeSweep) =>
                /\ cache' = SelectSeq(cache, Fresh)
                /\ procs'[p].pc = "index"
                      => Handles(procs'[p].remove) = Handles(cache) \ Handles(cache')
          /\ (Suspended(p) /\ procs'[p] # procs[p]) =>
                /\ cache' = cache
                /\ \A h \in Handles(cache) : clients'[h].stops = 0
          /\ Suspended(p) =>
                Handles(cache) \cap Handles(procs'[p].remove) = {}
          /\ (procs[p].pc = "index" /\ procs'[p].pc = "index") =>
                Handles(procs'[p].remove) \subseteq Handles(procs[p].remove)
          /\ (procs[p].pc = "index" /\ procs'[p].pc # "index") =>
                /\ procs'[p].remove = evicted_items
                /\ evicted_items' = <<>>]_vars

\* sweep p took client 1 from the Index and awaits its stop; meanwhile
\* client 2 was inserted and then evicted by the insertion of client 3
C20_EvictedDuringIndexPhase ==
    \E p \in Sweeps :
        /\ max_size <= 1 /\ procs[p].pc = "index"
        /\ Head(procs[p].remove).client = 1
        /\ evicted_items # <<>> /\ evicted_items[1].client = 2
        /\ cache # <<>> /\ cache[1].client = 3

====
